---- MODULE Spec2Model ----
(***************************************************************************)
(* Model of the segmentation worker of sam-image-cutout                    *)
(* (src/src/workers/segmentation.worker.ts): the message handler that      *)
(* calls the SAM REST API and falls back to the local flood-fill           *)
(* segmentation, the conversion of API regions, and the local extractor    *)
(* (performLocalSegmentation, getSamplePoints, floodFill).                 *)
(***************************************************************************)
EXTENDS Integers, Sequences, FiniteSets, TLC

\* ------------------------------------------------------------------------
\* Program constants
\* ------------------------------------------------------------------------
ClickTolerance == 30
AutoTolerance == 25
SampleCount == 20
MinPixels == 100
MinDim == 20
MaxSegments == 15
ConfigMaxSegments == 15

\* ------------------------------------------------------------------------
\* Bounds of the model
\* ------------------------------------------------------------------------
\* longest list of regions in a response of the API
MaxApiSegments == 2

\* null and undefined of the program
Null == [null |-> TRUE]
NoClick == [undefined |-> TRUE]

Min(a, b) == IF a < b THEN a ELSE b
Max(a, b) == IF a > b THEN a ELSE b
Abs(a) == IF a < 0 THEN 0 - a ELSE a

\* ------------------------------------------------------------------------
\* Input images.  An ImageData is { width, height, data }, data the flat
\* RGBA byte array of length width*height*4.  The images of the model are
\* named by a kind; Rgba gives the four bytes of the pixel at (x, y).
\* ------------------------------------------------------------------------
Image(w, h, kind) == [width |-> w, height |-> h, kind |-> kind]

Images ==
    { Image(50, 50, "uniform"),      \* one solid colour
      Image(42, 21, "vsplit"),       \* left half red, right half blue
      Image(4, 4, "uniform"),        \* fewer pixels than the sample target
      Image(40, 25, "stripes"),      \* two vertical stripes, 20 pixels wide
      Image(40, 12, "gradient") }    \* colour drifts by 5 per column

Rgba(img, x, y) ==
    CASE img.kind = "uniform"  -> <<200, 180, 160, 255>>
      [] img.kind = "vsplit"   -> IF 2 * x < img.width
                                  THEN <<255, 0, 0, 255>>
                                  ELSE <<0, 0, 255, 255>>
      [] img.kind = "stripes"  -> IF (x \div 20) % 2 = 0
                                  THEN <<10, 200, 10, (7 * y) % 256>>
                                  ELSE <<10, 160, 30, 255>>
      [] img.kind = "gradient" -> <<3 * x, 100, 200 - 2 * x, (x * y) % 256>>
      [] img.kind = "checker"  -> IF ((x \div 21) + (y \div 21)) % 2 = 0
                                  THEN <<240, 240, 240, 255>>
                                  ELSE <<20, 20, 20, 255>>

\* data[i] of the ImageData
Data(img, i) ==
    LET p == i \div 4
    IN  Rgba(img, p % img.width, p \div img.width)[(i % 4) + 1]

\* the click points of the model, per image (in bounds, as App.tsx computes
\* them from a click inside the displayed image)
ClickPoints(img) ==
    { [x |-> 0, y |-> 0],
      [x |-> img.width \div 2, y |-> img.height \div 2],
      [x |-> img.width - 1, y |-> img.height - 1] }

\* ------------------------------------------------------------------------
\* floodFill
\* ------------------------------------------------------------------------
Zeros(n) == [i \in 0..(n - 1) |-> 0]

\* lines 189-200: the state of a flood fill before its loop
FloodInit(img, startX, startY, visited, tolerance) ==
    LET startIdx == (startY * img.width + startX) * 4
    IN  [ targetColor |-> [r |-> Data(img, startIdx),
                           g |-> Data(img, startIdx + 1),
                           b |-> Data(img, startIdx + 2)],
          tolerance   |-> tolerance,
          mask        |-> Zeros(img.width * img.height),
          visited     |-> visited,
          queue       |-> << [x |-> startX, y |-> startY] >>,
          minX |-> startX, maxX |-> startX,
          minY |-> startY, maxY |-> startY,
          pixelCount  |-> 0,
          broke       |-> FALSE ]

\* the loop running on after the break of line 230
FloodRunning_IgnoresBreak(ff) == ff.queue # << >>

\* line 202 and line 230: the loop runs while the queue is non-empty and
\* the break has not been taken
FloodRunning(ff) == ff.queue # << >> /\ ~ff.broke

\* the colour distance without the blue channel
ColorDiff_NoBlue(img, pixelIdx, targetColor) ==
    Abs(Data(img, pixelIdx) - targetColor.r)
    + Abs(Data(img, pixelIdx + 1) - targetColor.g)

\* lines 210-212
ColorDiff(img, pixelIdx, targetColor) ==
    Abs(Data(img, pixelIdx) - targetColor.r)
    + Abs(Data(img, pixelIdx + 1) - targetColor.g)
    + Abs(Data(img, pixelIdx + 2) - targetColor.b)

\* the cap left out
CapReached_Never(img, pixelCount) == FALSE

\* line 230: pixelCount > width * height * 0.5
CapReached(img, pixelCount) == 2 * pixelCount > img.width * img.height

\* the loop putting a pixel it rejects for its colour into the visited bitmap
FloodIter_MarksRejected(img, ff) ==
    LET x    == Head(ff.queue).x
        y    == Head(ff.queue).y
        idx  == y * img.width + x
        rest == [ff EXCEPT !.queue = Tail(ff.queue)]
    IN  IF x < 0 \/ x >= img.width \/ y < 0 \/ y >= img.height
        THEN rest
        ELSE IF ff.visited[idx] # 0 \/ ff.mask[idx] # 0
        THEN rest
        ELSE IF ColorDiff(img, idx * 4, ff.targetColor) > ff.tolerance
        THEN [rest EXCEPT !.visited[idx] = 1]
        ELSE [ff EXCEPT
                !.mask[idx]    = 255,
                !.visited[idx] = 1,
                !.pixelCount   = @ + 1,
                !.minX = Min(@, x), !.maxX = Max(@, x),
                !.minY = Min(@, y), !.maxY = Max(@, y),
                !.queue = Tail(ff.queue)
                          \o << [x |-> x + 1, y |-> y], [x |-> x - 1, y |-> y],
                                [x |-> x, y |-> y + 1], [x |-> x, y |-> y - 1] >>,
                !.broke = CapReached(img, ff.pixelCount + 1)]

\* the loop without the test of the shared visited bitmap (line 207 testing
\* the run's own mask only)
FloodIter_IgnoresVisited(img, ff) ==
    LET x    == Head(ff.queue).x
        y    == Head(ff.queue).y
        idx  == y * img.width + x
        rest == [ff EXCEPT !.queue = Tail(ff.queue)]
    IN  IF x < 0 \/ x >= img.width \/ y < 0 \/ y >= img.height
        THEN rest
        ELSE IF ff.mask[idx] # 0
        THEN rest
        ELSE IF ColorDiff(img, idx * 4, ff.targetColor) > ff.tolerance
        THEN rest
        ELSE [ff EXCEPT
                !.mask[idx]    = 255,
                !.visited[idx] = 1,
                !.pixelCount   = @ + 1,
                !.minX = Min(@, x), !.maxX = Max(@, x),
                !.minY = Min(@, y), !.maxY = Max(@, y),
                !.queue = Tail(ff.queue)
                          \o << [x |-> x + 1, y |-> y], [x |-> x - 1, y |-> y],
                                [x |-> x, y |-> y + 1], [x |-> x, y |-> y - 1] >>,
                !.broke = CapReached(img, ff.pixelCount + 1)]

\* lines 203-230: one iteration of the loop
FloodIter(img, ff) ==
    LET x    == Head(ff.queue).x
        y    == Head(ff.queue).y
        idx  == y * img.width + x
        rest == [ff EXCEPT !.queue = Tail(ff.queue)]
    IN  IF x < 0 \/ x >= img.width \/ y < 0 \/ y >= img.height
        THEN rest
        ELSE IF ff.visited[idx] # 0 \/ ff.mask[idx] # 0
        THEN rest
        ELSE IF ColorDiff(img, idx * 4, ff.targetColor) > ff.tolerance
        THEN rest
        ELSE [ff EXCEPT
                !.mask[idx]    = 255,
                !.visited[idx] = 1,
                !.pixelCount   = @ + 1,
                !.minX = Min(@, x), !.maxX = Max(@, x),
                !.minY = Min(@, y), !.maxY = Max(@, y),
                !.queue = Tail(ff.queue)
                          \o << [x |-> x + 1, y |-> y], [x |-> x - 1, y |-> y],
                                [x |-> x, y |-> y + 1], [x |-> x, y |-> y - 1] >>,
                !.broke = CapReached(img, ff.pixelCount + 1)]

\* the id of a local region is `segment-${Date.now()}-${Math.random()}`;
\* the model keeps one token for all of them
LocalId == "segment-now-random"

\* the result without the minimum size (line 233 left out)
FloodResult_NoMinimum(ff) ==
    [ id       |-> LocalId,
      maskData |-> ff.mask,
      bounds   |-> [x |-> ff.minX, y |-> ff.minY,
                    width  |-> ff.maxX - ff.minX + 1,
                    height |-> ff.maxY - ff.minY + 1] ]

\* the result with a box one column short (width = maxX - minX)
FloodResult_NarrowBox(ff) ==
    IF ff.pixelCount < MinPixels
    THEN Null
    ELSE [ id       |-> LocalId,
           maskData |-> ff.mask,
           bounds   |-> [x |-> ff.minX, y |-> ff.minY,
                         width  |-> ff.maxX - ff.minX,
                         height |-> ff.maxY - ff.minY + 1] ]

\* lines 233-244: the value floodFill returns
FloodResult(ff) ==
    IF ff.pixelCount < MinPixels
    THEN Null
    ELSE [ id       |-> LocalId,
           maskData |-> ff.mask,
           bounds   |-> [x |-> ff.minX, y |-> ff.minY,
                         width  |-> ff.maxX - ff.minX + 1,
                         height |-> ff.maxY - ff.minY + 1] ]

\* floodFill as a whole: the loop run to its end.  A run accepts at most
\* width*height pixels and pushes four entries per accepted pixel, so the
\* loop makes at most 4*width*height + 1 iterations.  (An intermediate
\* state is bound as the element of a one-element set, which makes TLC
\* compute it once.)
RECURSIVE FloodLoop(_, _, _)
FloodLoop(img, ff, n) ==
    IF ~FloodRunning(ff) \/ n = 0 THEN ff
    ELSE IF n = 1 THEN FloodIter(img, ff)
    ELSE CHOOSE end \in
            { FloodLoop(img, half, n - (n \div 2)) :
                half \in { FloodLoop(img, ff, n \div 2) } } : TRUE

floodFill(img, startX, startY, visited, tolerance) ==
    CHOOSE r \in
        { [segment |-> FloodResult(end), visited |-> end.visited] :
            end \in { FloodLoop(img, init, 4 * img.width * img.height + 1) :
                        init \in { FloodInit(img, startX, startY, visited,
                                             tolerance) } } } : TRUE

\* ------------------------------------------------------------------------
\* getSamplePoints
\* ------------------------------------------------------------------------
\* Math.floor(Math.sqrt((width * height) / count))
SampleStep(width, height, count) ==
    CHOOSE s \in 0..(width * height) :
        /\ s * s * count <= width * height
        /\ (s + 1) * (s + 1) * count > width * height

\* lines 171-175, for a step > 0: y outer, x inner
RECURSIVE SampleRow(_, _, _, _)
SampleRow(x, y, width, step) ==
    IF x < width
    THEN << [x |-> x, y |-> y] >> \o SampleRow(x + step, y, width, step)
    ELSE << >>

RECURSIVE SampleRows(_, _, _, _)
SampleRows(y, width, height, step) ==
    IF y < height
    THEN SampleRow(step, y, width, step) \o SampleRows(y + step, width, height, step)
    ELSE << >>

\* with step = 0 the loops of lines 171-175 never end (x += 0)
SamplingEnds(width, height, count) == SampleStep(width, height, count) > 0

\* the grid with its first row and column at 0 instead of at step
getSamplePoints_FromZero(width, height, count) ==
    SampleRows(0, width, height, SampleStep(width, height, count))

getSamplePoints(width, height, count) ==
    SampleRows(SampleStep(width, height, count), width, height,
               SampleStep(width, height, count))

\* ------------------------------------------------------------------------
\* performLocalSegmentation
\* ------------------------------------------------------------------------
\* the filter of auto mode asking for more than 21 pixels each way
KeptInAuto_Stricter(segment) ==
    segment # Null /\ segment.bounds.width > MinDim + 1
                   /\ segment.bounds.height > MinDim + 1

\* line 157: the filter of auto mode
KeptInAuto(segment) ==
    segment # Null /\ segment.bounds.width > MinDim /\ segment.bounds.height > MinDim

\* the round putting a kept region at the front of the list
AutoRound_Prepends(img, point, st) ==
    IF st.visited[point.y * img.width + point.x] # 0
    THEN st
    ELSE CHOOSE next \in
            { [ visited  |-> r.visited,
                segment  |-> r.segment,
                segments |-> IF KeptInAuto(r.segment)
                             THEN << r.segment >> \o st.segments
                             ELSE st.segments ] :
                r \in { floodFill(img, point.x, point.y, st.visited,
                                  AutoTolerance) } } : TRUE

\* one round of the loop of lines 152-161, on the loop's state
\* [visited, segments]: the sample point is skipped, or floodFill is called
\* and its region kept or not
AutoRound(img, point, st) ==
    IF st.visited[point.y * img.width + point.x] # 0
    THEN st
    ELSE CHOOSE next \in
            { [ visited  |-> r.visited,
                segment  |-> r.segment,
                segments |-> IF KeptInAuto(r.segment)
                             THEN Append(st.segments, r.segment)
                             ELSE st.segments ] :
                r \in { floodFill(img, point.x, point.y, st.visited,
                                  AutoTolerance) } } : TRUE

\* lines 152-161: the loop over the sample points, from the i-th on
RECURSIVE AutoLoop(_, _, _, _)
AutoLoop(img, points, i, st) ==
    IF i > Len(points) THEN st
    ELSE CHOOSE end \in
            { IF Len(next.segments) >= MaxSegments
              THEN next
              ELSE AutoLoop(img, points, i + 1, next) :
                next \in { AutoRound(img, points[i], st) } } : TRUE

\* lines 142-164 (defined where getSamplePoints returns)
performLocalSegmentation(img, click) ==
    IF click # NoClick
    THEN CHOOSE segs \in
            { IF r.segment # Null THEN << r.segment >> ELSE << >> :
                r \in { floodFill(img, click.x, click.y,
                                  Zeros(img.width * img.height),
                                  ClickTolerance) } } : TRUE
    ELSE AutoLoop(img, getSamplePoints(img.width, img.height, SampleCount), 1,
                  [ visited  |-> Zeros(img.width * img.height),
                    segment  |-> Null,
                    segments |-> << >> ]).segments

\* ------------------------------------------------------------------------
\* The SAM API: what a response may hold, and convertAPISegment
\* ------------------------------------------------------------------------
\* A region of a response is { id, maskData, maskShape, bounds }.  maskData
\* is a base64 string: the model keeps whether atob accepts it (b64) and the
\* bytes it decodes to.  A field the response leaves out is Null.
Bytes(n, v) == [i \in 0..(n - 1) |-> v]

\* bytes of a width x height mask set (to v) exactly inside the box
BoxMask(width, height, box, v) ==
    [i \in 0..(width * height - 1) |->
        IF /\ (i % width) >= box.x /\ (i % width) < box.x + box.width
           /\ (i \div width) >= box.y /\ (i \div width) < box.y + box.height
        THEN v ELSE 0]

Box(x, y, w, h) == [x |-> x, y |-> y, width |-> w, height |-> h]

ApiSegmentKinds ==
    { "good", "short", "undecodable", "othershape", "noshape",
      "zeroone", "outside" }

\* the region of each kind that the service may send for an image
ApiSegment(img, kind, n) ==
    LET w    == img.width
        h    == img.height
        box  == Box(1, 1, w - 2, h - 2)
        same == [width |-> w, height |-> h]
        base == [ id        |-> <<"segment", n>>,
                  maskData  |-> [b64 |-> TRUE, bytes |-> BoxMask(w, h, box, 255)],
                  maskShape |-> same,
                  bounds    |-> box ]
    IN  CASE kind = "good"        -> base
          [] kind = "short"       ->
                [base EXCEPT !.maskData.bytes = Bytes(w * h - 1, 255)]
          [] kind = "undecodable" ->
                [base EXCEPT !.maskData = [b64 |-> FALSE, bytes |-> << >>]]
          [] kind = "othershape"  ->
                [base EXCEPT !.maskData.bytes = Bytes(4, 255),
                             !.maskShape = [width |-> 2, height |-> 2]]
          [] kind = "noshape"     -> [base EXCEPT !.maskShape = Null]
          [] kind = "zeroone"     ->
                [base EXCEPT !.maskData.bytes = BoxMask(w, h, box, 1)]
          [] kind = "outside"     ->
                [base EXCEPT !.bounds = Box(w - 1, h - 1, w, h)]

RECURSIVE KindLists(_)
KindLists(n) ==
    IF n = 0 THEN { << >> }
    ELSE LET shorter == KindLists(n - 1)
         IN  shorter \cup { Append(l, k) : l \in { m \in shorter : Len(m) = n - 1 },
                                           k \in ApiSegmentKinds }

\* the payloads response.json() may resolve to: an object without a
\* segments array, one with a list of regions of any kinds, or one with one
\* more valid region than config.maxSegments
ApiPayloads(img) ==
    { [error |-> "Internal Server Error"] } \cup
    { [segments |-> [i \in 1..Len(l) |-> ApiSegment(img, l[i], i)]] :
        l \in KindLists(MaxApiSegments) } \cup
    { [segments |-> [i \in 1..(ConfigMaxSegments + 1) |->
                        ApiSegment(img, "good", i)]] }

DomLen(bytes) == Cardinality(DOMAIN bytes)

\* the conversion without the check of the mask's length (lines 109-113
\* left out)
convertAPISegment_Unchecked(apiSegment, imageWidth, imageHeight) ==
    IF ~apiSegment.maskData.b64 THEN Null
    ELSE IF apiSegment.maskShape = Null THEN Null
    ELSE LET maskData == apiSegment.maskData.bytes
         IN  [ id       |-> apiSegment.id,
               maskData |->
                   IF /\ apiSegment.maskShape.width = imageWidth
                      /\ apiSegment.maskShape.height = imageHeight
                   THEN [i \in 0..(imageWidth * imageHeight - 1) |->
                            IF i < DomLen(maskData) THEN maskData[i] ELSE 0]
                   ELSE Zeros(imageWidth * imageHeight),
               bounds   |-> apiSegment.bounds ]

\* lines 104-134: Null when the region is dropped
convertAPISegment(apiSegment, imageWidth, imageHeight) ==
    IF ~apiSegment.maskData.b64 THEN Null                    \* atob throws
    ELSE IF apiSegment.maskShape = Null THEN Null            \* TypeError
    ELSE LET maskData     == apiSegment.maskData.bytes
             expectedSize == apiSegment.maskShape.width * apiSegment.maskShape.height
         IN  IF DomLen(maskData) # expectedSize THEN Null
             ELSE [ id       |-> apiSegment.id,
                    maskData |->
                        IF /\ apiSegment.maskShape.width = imageWidth
                           /\ apiSegment.maskShape.height = imageHeight
                        THEN [i \in 0..(imageWidth * imageHeight - 1) |->
                                 IF i < DomLen(maskData) THEN maskData[i] ELSE 0]
                        ELSE Zeros(imageWidth * imageHeight),
                    bounds   |-> apiSegment.bounds ]

\* lines 62-64: data.segments.map(convertAPISegment).filter(seg !== null)
RECURSIVE ConvertAll(_, _, _)
ConvertAll(apiSegments, imageWidth, imageHeight) ==
    IF apiSegments = << >> THEN << >>
    ELSE LET seg == convertAPISegment(Head(apiSegments), imageWidth, imageHeight)
         IN  (IF seg # Null THEN << seg >> ELSE << >>)
             \o ConvertAll(Tail(apiSegments), imageWidth, imageHeight)

\* ------------------------------------------------------------------------
\* The worker: self.onmessage, one 'segment' message.  The handler is an
\* async function: it runs without interruption from one await to the next.
\* The local segmentation has no await; the model takes it one floodFill
\* call at a time.
\* ------------------------------------------------------------------------
VARIABLES
    pc,            \* where the handler stands
    imageData,     \* e.data.imageData
    clickPoint,    \* e.data.clickPoint, or NoClick
    payload,       \* the body of the request sent to the API
    data,          \* the decoded body of the response
    error,         \* the error the catch clause caught
    visited,       \* performLocalSegmentation: the visited bitmap
    segments,      \* performLocalSegmentation: the regions kept so far
    segment,       \* performLocalSegmentation: what floodFill returned last
    samplePoints,  \* performLocalSegmentation: the sample points
    pointIdx,      \* performLocalSegmentation: position in samplePoints
    posted,        \* the messages the worker has posted
    requests,      \* the 'segment' messages the worker has taken up
    useSamApi,     \* config.useSamApi
    call,          \* the arguments of a function called on its own
    ff,            \* the locals of a floodFill called on its own
    app,           \* the state of the App component
    channel        \* the messages in flight between the App and its worker

vars == << pc, imageData, clickPoint, payload, data, error, visited, segments,
           segment, samplePoints, pointIdx, posted, requests, useSamApi,
           call, ff, app, channel >>

localVars == << visited, segments, segment, samplePoints, pointIdx >>

\* what the handler of the worker does not touch
outerVars == << useSamApi, call, ff, app, channel >>

Init ==
    /\ pc = "idle"
    /\ imageData = Null
    /\ clickPoint = NoClick
    /\ payload = Null
    /\ data = Null
    /\ error = Null
    /\ visited = << >>
    /\ segments = << >>
    /\ segment = Null
    /\ samplePoints = << >>
    /\ pointIdx = 0
    /\ posted = << >>
    /\ requests = << >>
    /\ useSamApi = TRUE
    /\ call = Null
    /\ ff = Null
    /\ app = Null
    /\ channel = Null

Result(segs) == [type |-> "result", segments |-> segs]

Throw(kind) ==
    /\ pc' = "catch"
    /\ error' = [error |-> kind]

\* lines 20-53: the message arrives, the image is encoded and the request
\* is sent; the canvas may give no 2d context (line 28)
OnMessage ==
    /\ pc = "idle"
    /\ \E img \in Images : \E click \in ClickPoints(img) \cup { NoClick } :
          /\ imageData' = img
          /\ clickPoint' = click
          /\ requests' = Append(requests, [imageData |-> img, clickPoint |-> click])
          /\ \/ /\ pc' = "fetch"
                /\ payload' = [ image  |-> img,
                                points |-> IF click # NoClick
                                           THEN << [x |-> click.x, y |-> click.y,
                                                    label |-> 1] >>
                                           ELSE Null ]
                /\ error' = error
             \/ /\ Throw("Could not get canvas context")
                /\ payload' = payload
    /\ UNCHANGED << data, localVars, posted >>
    /\ UNCHANGED outerVars

\* line 47: fetch rejects (the service is not reachable)
FetchRejects ==
    /\ pc = "fetch"
    /\ Throw("Failed to fetch")
    /\ UNCHANGED << imageData, clickPoint, payload, data, localVars, posted >>
    /\ UNCHANGED << requests, outerVars >>

\* lines 47-57: fetch resolves with a response, ok or not
FetchResolves ==
    /\ pc = "fetch"
    /\ \E ok \in BOOLEAN :
          IF ok THEN pc' = "json" /\ error' = error
                ELSE Throw("API error")
    /\ UNCHANGED << imageData, clickPoint, payload, data, localVars, posted >>
    /\ UNCHANGED << requests, outerVars >>

\* line 59: the body of the response is not JSON
JsonRejects ==
    /\ pc = "json"
    /\ Throw("Unexpected token")
    /\ UNCHANGED << imageData, clickPoint, payload, data, localVars, posted >>
    /\ UNCHANGED << requests, outerVars >>

\* lines 59-71: the body is decoded, its regions are converted and posted
JsonResolves ==
    /\ pc = "json"
    /\ \E d \in ApiPayloads(imageData) :
          /\ data' = d
          /\ IF "segments" \in DOMAIN d
             THEN /\ posted' = Append(posted,
                        Result(ConvertAll(d.segments, imageData.width,
                                          imageData.height)))
                  /\ pc' = "done"
                  /\ error' = error
             ELSE /\ Throw("Cannot read properties of undefined")
                  /\ posted' = posted
    /\ UNCHANGED << imageData, clickPoint, payload, localVars >>
    /\ UNCHANGED << requests, outerVars >>

\* the map v if it is a map of n pixels, else a new map
LeftOrZeros(v, n) ==
    IF v # Null /\ DOMAIN v = 0..(n - 1) THEN v ELSE Zeros(n)

\* performLocalSegmentation taking up the visited map its last call left
Catch_KeepsVisited ==
    /\ pc = "catch"
    /\ IF clickPoint # NoClick
       THEN \E r \in { floodFill(imageData, clickPoint.x, clickPoint.y,
                                   LeftOrZeros(visited, imageData.width * imageData.height),
                                   ClickTolerance) } :
                /\ visited' = r.visited
                /\ segment' = r.segment
                /\ segments' = IF r.segment # Null THEN << r.segment >> ELSE << >>
                /\ pc' = "return"
                /\ UNCHANGED << samplePoints, pointIdx >>
       ELSE /\ visited' = LeftOrZeros(visited, imageData.width * imageData.height)
            /\ segments' = << >>
            /\ segment' = segment
            /\ IF SamplingEnds(imageData.width, imageData.height, SampleCount)
               THEN /\ samplePoints' = getSamplePoints(imageData.width,
                                           imageData.height, SampleCount)
                    /\ pointIdx' = 1
                    /\ pc' = "points"
               ELSE /\ pc' = "sampling"
                    /\ UNCHANGED << samplePoints, pointIdx >>
    /\ UNCHANGED << imageData, clickPoint, payload, data, error, posted >>
    /\ UNCHANGED << requests, outerVars >>

\* lines 73-78 and 142-151: the catch clause enters performLocalSegmentation;
\* with a click point the one floodFill of line 147 runs
Catch ==
    /\ pc = "catch"
    /\ IF clickPoint # NoClick
       THEN \E r \in { floodFill(imageData, clickPoint.x, clickPoint.y,
                                   Zeros(imageData.width * imageData.height),
                                   ClickTolerance) } :
                /\ visited' = r.visited
                /\ segment' = r.segment
                /\ segments' = IF r.segment # Null THEN << r.segment >> ELSE << >>
                /\ pc' = "return"
                /\ UNCHANGED << samplePoints, pointIdx >>
       ELSE /\ visited' = Zeros(imageData.width * imageData.height)
            /\ segments' = << >>
            /\ segment' = segment
            /\ IF SamplingEnds(imageData.width, imageData.height, SampleCount)
               THEN /\ samplePoints' = getSamplePoints(imageData.width,
                                           imageData.height, SampleCount)
                    /\ pointIdx' = 1
                    /\ pc' = "points"
               ELSE /\ pc' = "sampling"
                    /\ UNCHANGED << samplePoints, pointIdx >>
    /\ UNCHANGED << imageData, clickPoint, payload, data, error, posted >>
    /\ UNCHANGED << requests, outerVars >>

\* lines 171-175 with step = 0: the loop pushes points for ever
SampleForever ==
    /\ pc = "sampling"
    /\ UNCHANGED vars

\* lines 152-161: one round of the loop over the sample points
NextPoint ==
    /\ pc = "points"
    /\ IF pointIdx > Len(samplePoints)
       THEN /\ pc' = "return"
            /\ UNCHANGED << pointIdx, visited, segments, segment >>
       ELSE \E next \in { AutoRound(imageData, samplePoints[pointIdx],
                                    [ visited  |-> visited,
                                      segment  |-> segment,
                                      segments |-> segments ]) } :
                /\ visited' = next.visited
                /\ segment' = next.segment
                /\ segments' = next.segments
                /\ IF Len(next.segments) >= MaxSegments
                   THEN pc' = "return" /\ pointIdx' = pointIdx
                   ELSE pc' = "points" /\ pointIdx' = pointIdx + 1
    /\ UNCHANGED << imageData, clickPoint, payload, data, error, samplePoints,
                    posted >>
    /\ UNCHANGED << requests, outerVars >>

\* the fallback posting a result without the regions it computed
PostFallback_Empty ==
    /\ pc = "return"
    /\ posted' = Append(posted, Result(<< >>))
    /\ pc' = "done"
    /\ UNCHANGED << imageData, clickPoint, payload, data, error, localVars >>
    /\ UNCHANGED << requests, outerVars >>

\* lines 78-85: performLocalSegmentation has returned, its result is posted
PostFallback ==
    /\ pc = "return"
    /\ posted' = Append(posted, Result(segments))
    /\ pc' = "done"
    /\ UNCHANGED << imageData, clickPoint, payload, data, error, localVars >>
    /\ UNCHANGED << requests, outerVars >>

Next ==
    \/ OnMessage
    \/ FetchRejects
    \/ FetchResolves
    \/ JsonRejects
    \/ JsonResolves
    \/ Catch
    \/ SampleForever
    \/ NextPoint
    \/ PostFallback

Spec == Init /\ [][Next]_vars

\* the worker's own steps run whenever they can; whether and when the
\* service answers is not in the worker's hands, and the handler sets no
\* timer that would end the wait
WorkerStep == Catch \/ NextPoint \/ PostFallback

FairSpec == Spec /\ WF_vars(WorkerStep)

\* ------------------------------------------------------------------------
\* performLocalSegmentation on its own: the handler is in its catch clause
\* (the call to the service has failed) with the image and the click point of
\* the request.  The images are those of the worker's requests and three more:
\* a chequerboard of 21-pixel squares whose sample grid has 16 points, each in
\* a square of its own, and two split images, one with halves narrower than
\* 21 pixels and one with halves of 22 by 30 pixels.
\* ------------------------------------------------------------------------
LocalImages ==
    Images \cup { Image(84, 84, "checker"),
                  Image(30, 30, "vsplit"),
                  Image(44, 30, "vsplit") }

LocalInitOn(images) ==
    /\ pc = "catch"
    /\ \E img \in images :
          \E click \in ClickPoints(img) \cup {NoClick} :
              /\ imageData = img
              /\ clickPoint = click
              /\ requests = << [imageData |-> img, clickPoint |-> click] >>
    /\ payload = Null
    /\ data = Null
    /\ error = [error |-> "Failed to fetch"]
    /\ visited = Null
    /\ segments = Null
    /\ segment = Null
    /\ samplePoints = << >>
    /\ pointIdx = 0
    /\ posted = << >>
    /\ useSamApi = TRUE
    /\ call = Null
    /\ ff = Null
    /\ app = Null
    /\ channel = Null

LocalInit == LocalInitOn(LocalImages)

LocalNext ==
    \/ Catch
    \/ SampleForever
    \/ NextPoint
    \/ PostFallback

LocalSpec == LocalInit /\ [][LocalNext]_vars

\* ------------------------------------------------------------------------
\* performLocalSegmentation called again: after a result is posted the next
\* message arrives and its call to the service fails too.  The variables
\* of the call before keep what it left in them.
\* ------------------------------------------------------------------------
MaxCalls == 2

RepeatImages == { Image(40, 25, "stripes"), Image(40, 12, "gradient") }

NextCall ==
    /\ pc = "done"
    /\ Len(requests) < MaxCalls
    /\ \E img \in RepeatImages :
          \E click \in ClickPoints(img) \cup {NoClick} :
              /\ imageData' = img
              /\ clickPoint' = click
              /\ requests' = Append(requests, [imageData |-> img, clickPoint |-> click])
    /\ pc' = "catch"
    /\ UNCHANGED << payload, data, error, localVars, posted, outerVars >>

RepeatNext ==
    \/ Catch
    \/ NextPoint
    \/ PostFallback
    \/ NextCall

RepeatSpec == LocalInitOn(RepeatImages) /\ [][RepeatNext]_vars

\* ------------------------------------------------------------------------
\* The worker under either value of config.useSamApi (config.ts sets true),
\* and the status line of SAMStatus.tsx
\* ------------------------------------------------------------------------
ConfigInit ==
    /\ useSamApi \in BOOLEAN
    /\ pc = "idle"
    /\ imageData = Null
    /\ clickPoint = Null
    /\ payload = Null
    /\ data = Null
    /\ error = Null
    /\ visited = Null
    /\ segments = Null
    /\ segment = Null
    /\ samplePoints = << >>
    /\ pointIdx = 0
    /\ posted = << >>
    /\ requests = << >>
    /\ call = Null
    /\ ff = Null
    /\ app = Null
    /\ channel = Null

ConfigSpec == ConfigInit /\ [][Next]_vars

\* SAMStatus.tsx lines 14-34: the status a finished check sets
checkSAMStatus(use, healthOk) ==
    IF ~use THEN "disconnected"
    ELSE IF healthOk THEN "connected" ELSE "disconnected"

\* SAMStatus.tsx lines 40-42
StatusText(status) ==
    CASE status = "checking"     -> "Checking SAM API..."
      [] status = "connected"    -> "SAM API Connected"
      [] status = "disconnected" -> "Using Local Segmentation"

\* ------------------------------------------------------------------------
\* getSamplePoints on its own: one call with a width, a height and a count
\* ------------------------------------------------------------------------
MaxSide == 12

SeedCalls ==
    { [fn |-> "getSamplePoints", width |-> w, height |-> h, count |-> c] :
        w \in 1..MaxSide, h \in 1..MaxSide, c \in {3, SampleCount, 25} }
    \cup { [fn |-> "getSamplePoints", width |-> 100, height |-> 100, count |-> 25],
           [fn |-> "getSamplePoints", width |-> 50, height |-> 50,
            count |-> SampleCount] }

SeedInit ==
    /\ pc = "called"
    /\ call \in SeedCalls
    /\ samplePoints = << >>
    /\ imageData = Null
    /\ clickPoint = Null
    /\ payload = Null
    /\ data = Null
    /\ error = Null
    /\ visited = Null
    /\ segments = Null
    /\ segment = Null
    /\ pointIdx = 0
    /\ posted = << >>
    /\ requests = << >>
    /\ useSamApi = TRUE
    /\ ff = Null
    /\ app = Null
    /\ channel = Null

\* lines 167-177: the call returns its points, or enters loops that never end
SeedCall ==
    /\ pc = "called"
    /\ IF SamplingEnds(call.width, call.height, call.count)
       THEN /\ samplePoints' = getSamplePoints(call.width, call.height, call.count)
            /\ pc' = "returned"
       ELSE /\ pc' = "sampling"
            /\ samplePoints' = samplePoints
    /\ UNCHANGED << imageData, clickPoint, payload, data, error, visited,
                    segments, segment, pointIdx, posted, requests, outerVars >>

SeedNext ==
    \/ SeedCall
    \/ SampleForever

SeedSpec == SeedInit /\ [][SeedNext]_vars

\* ------------------------------------------------------------------------
\* The App component (App.tsx): its state, its worker, and the handlers of
\* its buttons.  A region is known to the App by its id; a request in flight
\* is in channel.toWorker, a result the worker has posted and the App has not
\* yet taken up is in channel.toApp.  The user acts on what is rendered:
\* React runs a pending effect before it handles a click, so the handlers of
\* the buttons wait for WorkerEffect; the worker's thread and the delivery
\* of its messages do not.
\* ------------------------------------------------------------------------
MaxResult == 2

AppImages == { [src |-> "first.png"], [src |-> "second.png"] }

AppClicks == { [x |-> 0, y |-> 0], [x |-> 3, y |-> 2] }

RECURSIVE IdLists(_)
IdLists(n) ==
    IF n = 0 THEN { << >> }
    ELSE LET shorter == IdLists(n - 1)
         IN  shorter \cup { Append(l, [id |-> i]) :
                               l \in { m \in shorter : Len(m) = n - 1 },
                               i \in 1..MaxResult }

\* the 'result' messages of the worker: a list of regions, and whether
\* createSegmentFromWorkerData can draw them all.  It cannot when a region
\* of the API came without bounds, which convertAPISegment passes on as they
\* are (worker line 129): line 82 of App.tsx then destructures undefined and
\* throws, as does createImageData on bounds of width or height 0.
WorkerResults ==
    { [type |-> "result", segments |-> l, drawable |-> d] :
        l \in IdLists(MaxResult), d \in BOOLEAN } \
    { [type |-> "result", segments |-> << >>, drawable |-> FALSE] }

NoMessages == [toWorker |-> << >>, toApp |-> << >>]

\* App.tsx lines 9-14 and the worker of the first effect run
AppInit ==
    /\ app = [ originalImage |-> Null, imageData |-> Null,
               segments |-> << >>, isSegmenting |-> FALSE,
               effectPending |-> FALSE ]
    /\ channel = NoMessages
    /\ pc = "idle"
    /\ imageData = Null
    /\ clickPoint = Null
    /\ payload = Null
    /\ data = Null
    /\ error = Null
    /\ visited = Null
    /\ segments = Null
    /\ segment = Null
    /\ samplePoints = << >>
    /\ pointIdx = 0
    /\ posted = << >>
    /\ requests = << >>
    /\ useSamApi = TRUE
    /\ call = Null
    /\ ff = Null

workerVars == << pc, imageData, clickPoint, payload, data, error, visited,
                 segments, segment, samplePoints, pointIdx, posted, requests,
                 useSamApi, call, ff >>

\* lines 38-43, called by ImageInput when the image has loaded.  The new
\* imageData makes React run the effect of lines 17-36 again, after the
\* render: until then the worker of the image before is alive, it is the
\* one workerRef holds, and the page can already be used.
handleImageSelected ==
    /\ app.originalImage = Null
    /\ \E img \in AppImages :
          app' = [app EXCEPT !.imageData = img, !.originalImage = img,
                             !.segments = << >>, !.effectPending = TRUE]
    /\ UNCHANGED << channel, workerVars >>

\* lines 17-36, run for a new imageData: the cleanup of line 34 terminates
\* the worker of the image before, with whatever it had in flight, and a new
\* worker is created
WorkerEffect ==
    /\ app.effectPending
    /\ app' = [app EXCEPT !.effectPending = FALSE]
    /\ channel' = NoMessages
    /\ UNCHANGED workerVars

\* lines 187-196: the Change Image button
ChangeImage ==
    /\ app.originalImage # Null
    /\ app' = [app EXCEPT !.originalImage = Null, !.segments = << >>]
    /\ UNCHANGED << channel, workerVars >>

\* lines 45-53 as they are, without the conditions under which lines 206
\* and 231 offer the buttons
handleSegmentImage_Unguarded ==
    /\ app.originalImage # Null
    /\ app.imageData # Null
    /\ app' = [app EXCEPT !.isSegmenting = TRUE]
    /\ channel' = [channel EXCEPT !.toWorker =
                      Append(@, [type |-> "segment", imageData |-> app.imageData,
                                 clickPoint |-> NoClick])]
    /\ UNCHANGED workerVars

\* lines 45-53, behind the Start Segmentation button (lines 206-216) or the
\* Re-segment button (lines 230-233)
handleSegmentImage ==
    /\ app.originalImage # Null
    /\ ~app.isSegmenting
    /\ app.imageData # Null
    /\ app' = [app EXCEPT !.isSegmenting = TRUE]
    /\ channel' = [channel EXCEPT !.toWorker =
                      Append(@, [type |-> "segment", imageData |-> app.imageData,
                                 clickPoint |-> NoClick])]
    /\ UNCHANGED workerVars

\* lines 55-74: a click on the displayed image
handleImageClick ==
    /\ app.originalImage # Null
    /\ ~(app.imageData = Null \/ app.isSegmenting \/ Len(app.segments) > 0)
    /\ app' = [app EXCEPT !.isSegmenting = TRUE]
    /\ \E click \in AppClicks :
          channel' = [channel EXCEPT !.toWorker =
                         Append(@, [type |-> "segment",
                                    imageData |-> app.imageData,
                                    clickPoint |-> click])]
    /\ UNCHANGED workerVars

\* the regions of a result, each marked with the image of the request its
\* mask was computed from
ComputedFrom(result, image) ==
    [result EXCEPT !.segments =
        [k \in 1..Len(@) |-> [id |-> @[k].id, of |-> image]]]

\* the worker takes up a request and posts its result
WorkerAnswers ==
    /\ channel.toWorker # << >>
    /\ \E result \in WorkerResults :
          channel' = [ toWorker |-> Tail(channel.toWorker),
                       toApp    |-> Append(channel.toApp,
                                       ComputedFrom(result,
                                           Head(channel.toWorker).imageData)) ]
    /\ UNCHANGED << app, workerVars >>

\* the handler adding the regions of the result to the list it has
onmessage_Appends ==
    /\ channel.toApp # << >>
    /\ channel' = [channel EXCEPT !.toApp = Tail(@)]
    /\ IF Head(channel.toApp).drawable
       THEN app' = [app EXCEPT !.segments = @ \o Head(channel.toApp).segments,
                               !.isSegmenting = FALSE]
       ELSE app' = app
    /\ UNCHANGED workerVars

\* lines 23-31: the handler of the worker's messages; when
\* createSegmentFromWorkerData throws, neither setter is reached
onmessage ==
    /\ channel.toApp # << >>
    /\ channel' = [channel EXCEPT !.toApp = Tail(@)]
    /\ IF Head(channel.toApp).drawable
       THEN app' = [app EXCEPT !.segments = Head(channel.toApp).segments,
                               !.isSegmenting = FALSE]
       ELSE app' = app
    /\ UNCHANGED workerVars

\* segments.filter(s => s.id !== segmentId)
Without(segs, segmentId) ==
    LET Other(s) == s.id # segmentId
    IN  SelectSeq(segs, Other)

\* lines 137-139, called by the delete button of a region of the grid
handleDeleteSegment ==
    /\ app.originalImage # Null
    /\ \E k \in 1..Len(app.segments) :
          app' = [app EXCEPT !.segments = Without(@, app.segments[k].id)]
    /\ UNCHANGED << channel, workerVars >>

\* lines 141-145, behind the Clear All button, when the user confirms
handleClearAll ==
    /\ app.originalImage # Null
    /\ Len(app.segments) > 0
    /\ app' = [app EXCEPT !.segments = << >>]
    /\ UNCHANGED << channel, workerVars >>

AppNext ==
    \/ handleImageSelected
    \/ WorkerEffect
    \/ ChangeImage
    \/ handleSegmentImage
    \/ handleImageClick
    \/ WorkerAnswers
    \/ onmessage
    \/ handleDeleteSegment
    \/ handleClearAll

AppSpec == AppInit /\ [][AppNext]_vars

\* the worker answers every request it holds, the browser delivers every
\* message a live worker has posted, and React runs the effect it owes; what
\* the user does, and when, is free
FairAppSpec ==
    AppSpec /\ WF_vars(WorkerAnswers) /\ WF_vars(onmessage) /\ WF_vars(WorkerEffect)

\* ------------------------------------------------------------------------
\* floodFill on its own, one iteration of its loop per step.  A call is made
\* on a new visited map, as in click mode, or on the map an earlier flood
\* fill of the same image has left, as in auto mode; its seed is a pixel
\* that map does not hold (line 154).
\* ------------------------------------------------------------------------
FloodImages ==
    { Image(16, 16, "uniform"),     \* the cap fires at 129 pixels
      Image(16, 16, "vsplit"),      \* each half is half of the image
      Image(24, 8, "gradient") }    \* colour drifts by 5 per column

FloodSeeds(img) ==
    { [x |-> 2, y |-> 3],
      [x |-> img.width - 1, y |-> img.height - 1] }

\* the visited maps a call may find
VisitedBefore(img) ==
    { Zeros(img.width * img.height) } \cup
    { floodFill(img, 0, 0, Zeros(img.width * img.height), AutoTolerance).visited }

FloodCalls ==
    UNION { { [fn |-> "floodFill", image |-> img,
               startX |-> seed.x, startY |-> seed.y,
               visited |-> v, tolerance |-> t] :
                 seed \in FloodSeeds(img), v \in VisitedBefore(img),
                 t \in {AutoTolerance, ClickTolerance} } :
            img \in FloodImages }

FloodSpecInit ==
    /\ pc = "flooding"
    /\ \E c \in { d \in FloodCalls :
                    d.visited[d.startY * d.image.width + d.startX] = 0 } :
          /\ call = c
          /\ ff = FloodInit(c.image, c.startX, c.startY, c.visited, c.tolerance)
    /\ imageData = Null
    /\ clickPoint = Null
    /\ payload = Null
    /\ data = Null
    /\ error = Null
    /\ visited = Null
    /\ segments = Null
    /\ segment = Null
    /\ samplePoints = << >>
    /\ pointIdx = 0
    /\ posted = << >>
    /\ requests = << >>
    /\ useSamApi = TRUE
    /\ app = Null
    /\ channel = Null

\* lines 202-231: one iteration of the loop
FloodStep ==
    /\ pc = "flooding"
    /\ FloodRunning(ff)
    /\ ff' = FloodIter(call.image, ff)
    /\ UNCHANGED << pc, imageData, clickPoint, payload, data, error, visited,
                    segments, segment, samplePoints, pointIdx, posted, requests,
                    useSamApi, call, app, channel >>

\* lines 233-244: the loop is over and floodFill returns
FloodReturn ==
    /\ pc = "flooding"
    /\ ~FloodRunning(ff)
    /\ segment' = FloodResult(ff)
    /\ visited' = ff.visited
    /\ pc' = "returned"
    /\ UNCHANGED << imageData, clickPoint, payload, data, error, segments,
                    samplePoints, pointIdx, posted, requests, useSamApi, call,
                    ff, app, channel >>

FloodNext ==
    \/ FloodStep
    \/ FloodReturn

FloodSpec == FloodSpecInit /\ [][FloodNext]_vars

\* ------------------------------------------------------------------------
\* Properties
\* ------------------------------------------------------------------------
ExternalFailures ==
    { [error |-> "Failed to fetch"], [error |-> "API error"],
      [error |-> "Unexpected token"],
      [error |-> "Cannot read properties of undefined"] }

\* a list of regions without the ids
Shapes(segs) ==
    [i \in 1..Len(segs) |-> [maskData |-> segs[i].maskData, bounds |-> segs[i].bounds]]

\* the indices a mask sets
SetPixels(mask) == { i \in DOMAIN mask : mask[i] # 0 }

\* the local segmentation of the request returns (no endless sampling)
LocalReturns ==
    clickPoint # NoClick
    \/ SamplingEnds(imageData.width, imageData.height, SampleCount)

\* the handler has ended on the path through the API
ApiDone == pc = "done" /\ error = Null

\* C1: when the call of the service fails (fetch rejects, status not ok,
\* body not JSON or without a segments list) the worker posts nothing until
\* the local segmentation has returned and then exactly one message, a
\* result whose regions are, ids aside, those of performLocalSegmentation on
\* the same image and click point.
C1_FallbackPostsLocalResult ==
    error \in ExternalFailures =>
        IF pc = "done"
        THEN /\ Len(posted) = 1
             /\ posted[1].type = "result"
             /\ Shapes(posted[1].segments)
                  = Shapes(performLocalSegmentation(imageData, clickPoint))
        ELSE posted = << >>

C1_Witness ==
    /\ pc = "done"
    /\ error \in ExternalFailures
    /\ clickPoint # NoClick
    /\ Len(posted) = 1
    /\ Len(posted[1].segments) = 1

\* C2: every request is answered at last: once the request is sent to the
\* service a result message is posted, also when the service never answers
\* (stated of the code, which sets no timeout on the fetch).
C2_EveryRequestAnswered == (pc = "fetch") ~> (posted # << >>)

\* the regions of the response, in order, that pass the validation of the
\* mask: decodable, and as many bytes as the declared shape has pixels
ValidApiSegment(s) ==
    /\ s.maskData.b64
    /\ s.maskShape # Null
    /\ DomLen(s.maskData.bytes) = s.maskShape.width * s.maskShape.height

ValidIds(apiSegments) ==
    LET valid == SelectSeq(apiSegments, ValidApiSegment)
    IN  [i \in 1..Len(valid) |-> valid[i].id]

Ids(segs) == [i \in 1..Len(segs) |-> segs[i].id]

\* C3: when the service answers with a list in which no region is valid,
\* the posted result is the result of the local segmentation (stated of the
\* code, which posts the empty list).
C3_NoValidRegionFallsBack ==
    (ApiDone /\ ValidIds(data.segments) = << >> /\ LocalReturns) =>
        Shapes(posted[1].segments)
          = Shapes(performLocalSegmentation(imageData, clickPoint))

\* C4: a region of the response whose declared mask shape is not the
\* image's width and height is not in the posted result (stated of the
\* code, which posts it with an all-zero mask and the service's bounds).
C4_OtherShapeDropped ==
    ApiDone =>
        \A i \in 1..Len(data.segments) :
            LET s == data.segments[i]
            IN  (s.maskShape # Null
                 /\ (s.maskShape.width # imageData.width
                     \/ s.maskShape.height # imageData.height))
                => \A j \in 1..Len(posted[1].segments) :
                       posted[1].segments[j].id # s.id

\* C5: of a response with a segments list, exactly the regions whose mask
\* decodes to as many bytes as the declared shape has pixels are posted, in
\* the order of the response; the regions that fail are dropped and the
\* call does not fall back because of them.
C5_InvalidRegionsDropped ==
    (pc = "done" /\ data # Null /\ "segments" \in DOMAIN data) =>
        /\ error = Null
        /\ Len(posted) = 1
        /\ Ids(posted[1].segments) = ValidIds(data.segments)

C5_Witness ==
    /\ ApiDone
    /\ Len(data.segments) = 2
    /\ ~ValidApiSegment(data.segments[1])
    /\ ValidApiSegment(data.segments[2])
    /\ Ids(posted[1].segments) = << data.segments[2].id >>

\* performLocalSegmentation has returned and its result is not yet posted
LocalReturned == pc = "return"

VisitedPixels(v) == { i \in DOMAIN v : v[i] # 0 }

\* C6: when the local segmentation in auto mode returns, no pixel is set in
\* the masks of two of its regions.
C6_AutoRegionsDisjoint ==
    (LocalReturned /\ clickPoint = NoClick) =>
        \A i, j \in 1..Len(segments) :
            i < j => SetPixels(segments[i].maskData)
                       \cap SetPixels(segments[j].maskData) = { }

C6_Witness ==
    /\ LocalReturned
    /\ clickPoint = NoClick
    /\ Len(segments) >= 2
    /\ imageData.kind = "uniform"

\* C7: every region the local segmentation returns has at least 100 pixels
\* set; in auto mode its box is at least 21 wide and 21 high; and a flood
\* fill that accepts fewer than 100 pixels (the pixels it adds to the
\* visited bitmap) adds no region.
C7_MinimumSize ==
    /\ [](LocalReturned =>
            \A i \in 1..Len(segments) :
                /\ Cardinality(SetPixels(segments[i].maskData)) >= 100
                /\ clickPoint = NoClick =>
                      /\ segments[i].bounds.width >= 21
                      /\ segments[i].bounds.height >= 21)
    /\ [][(pc \in { "catch", "points" }
           /\ visited' # visited
           /\ Cardinality(VisitedPixels(visited'))
                - Cardinality(VisitedPixels(visited)) < 100)
          => (segment' = Null /\ segments' = segments)]_vars

C7_Witness ==
    /\ LocalReturned
    /\ clickPoint = NoClick
    /\ Len(segments) >= 1
    /\ imageData.kind = "vsplit"

\* the box is the tight box of the set pixels of the mask
TightBox(width, mask, box) ==
    LET set == SetPixels(mask)
    IN  /\ set # { }
        /\ \A i \in set :
              /\ box.x <= i % width /\ i % width < box.x + box.width
              /\ box.y <= i \div width /\ i \div width < box.y + box.height
        /\ \E i \in set : i % width = box.x
        /\ \E i \in set : i % width = box.x + box.width - 1
        /\ \E i \in set : i \div width = box.y
        /\ \E i \in set : i \div width = box.y + box.height - 1

\* C8: the box of every region floodFill returns, kept afterwards or not, is
\* the tight box of the 255 entries of its mask.
C8_BoundsTight ==
    segment # Null =>
        /\ \A k \in DOMAIN segment.maskData : segment.maskData[k] \in { 0, 255 }
        /\ TightBox(imageData.width, segment.maskData, segment.bounds)

C8_Witness ==
    /\ segment # Null
    /\ segment.bounds.x > 0
    /\ segment.bounds.x + segment.bounds.width < imageData.width
    /\ segment.bounds.height = imageData.height

\* a region in normalized form for an image
Normalized(img, seg) ==
    /\ DOMAIN seg.maskData = 0..(img.width * img.height - 1)
    /\ \A i \in DOMAIN seg.maskData : seg.maskData[i] \in { 0, 255 }
    /\ seg.bounds.x >= 0 /\ seg.bounds.y >= 0
    /\ seg.bounds.width >= 0 /\ seg.bounds.height >= 0
    /\ seg.bounds.x + seg.bounds.width <= img.width
    /\ seg.bounds.y + seg.bounds.height <= img.height
    /\ \A i \in SetPixels(seg.maskData) :
          /\ seg.bounds.x <= i % img.width
          /\ i % img.width < seg.bounds.x + seg.bounds.width
          /\ seg.bounds.y <= i \div img.width
          /\ i \div img.width < seg.bounds.y + seg.bounds.height

\* C9: every region of a posted result is in normalized form, whichever
\* backend produced it (stated of the code, which posts the bytes and the
\* bounds of the service unchecked).
C9_ResultsNormalized ==
    pc = "done" =>
        \A i \in 1..Len(posted[1].segments) :
            Normalized(imageData, posted[1].segments[i])

\* the click-mode flood fill of the solid 50x50 image from (25,25), with
\* tolerance 30, has returned
SolidClickReturned ==
    /\ LocalReturned
    /\ imageData = Image(50, 50, "uniform")
    /\ clickPoint = [x |-> 25, y |-> 25]

\* C10 as stated: that flood fill ends with at most 1250 accepted pixels.
C10_CapAt1250 ==
    SolidClickReturned =>
        Cardinality(VisitedPixels(visited)) <= 1250

\* C10 as amended: that flood fill stops early, with at most 1251 accepted
\* pixels (the first count above half of 2500), and returns a region whose
\* mask holds exactly the accepted pixels and whose box is their tight box,
\* inside the image.
C10_CapAt1251 ==
    SolidClickReturned =>
        /\ Cardinality(VisitedPixels(visited)) <= 1251
        /\ Len(segments) = 1
        /\ SetPixels(segments[1].maskData) = VisitedPixels(visited)
        /\ TightBox(50, segments[1].maskData, segments[1].bounds)
        /\ Normalized(imageData, segments[1])

C10_Witness ==
    /\ SolidClickReturned
    /\ Len(segments) = 1
    /\ Cardinality(SetPixels(segments[1].maskData)) = 1251

\* C11: the local fallback terminates on every non-empty image, in click
\* mode and in automatic mode: once the handler has reached its catch block,
\* performLocalSegmentation returns (a list that may be empty).
C11_LocalFallbackTerminates == (pc = "catch") ~> (pc = "return")

\* an automatic request on a split image has returned from the fallback
SplitAutoReturned ==
    LocalReturned /\ clickPoint = NoClick /\ imageData.kind = "vsplit"

\* the pixels of the box, as indices of a mask of the given width
BoxPixels(width, box) ==
    { y * width + x : x \in box.x..(box.x + box.width - 1),
                      y \in box.y..(box.y + box.height - 1) }

\* the result is one region per half, the left half first, each with the
\* half as its mask and as its bounding box
TwoHalves(img, segs) ==
    LET half == img.width \div 2
        left == Box(0, 0, half, img.height)
        right == Box(half, 0, img.width - half, img.height)
    IN  /\ Len(segs) = 2
        /\ segs[1].bounds = left
        /\ segs[2].bounds = right
        /\ SetPixels(segs[1].maskData) = BoxPixels(img.width, left)
        /\ SetPixels(segs[2].maskData) = BoxPixels(img.width, right)

\* C12 as stated: on an image split into a red left half and a blue right
\* half, automatic local segmentation returns exactly two regions, one per
\* half, whose bounding boxes are exactly the two halves.
C12_SplitGivesTwoHalves ==
    SplitAutoReturned => TwoHalves(imageData, segments)

\* the halves pass the filter of line 157 and the sample grid of line 169
\* has a point in each half
SplitLargeEnough(img) ==
    LET step == SampleStep(img.width, img.height, SampleCount)
    IN  /\ img.width % 2 = 0
        /\ img.width \div 2 > MinDim
        /\ img.height > MinDim
        /\ 2 * step < img.width
        /\ step < img.height

\* C12, amended: the two regions are returned when the image has an even
\* width, halves more than 20 pixels wide and high, and a sample step smaller
\* than the half width and the height.
C12_LargeSplitGivesTwoHalves ==
    (SplitAutoReturned /\ SplitLargeEnough(imageData))
        => TwoHalves(imageData, segments)

C12_Witness ==
    /\ SplitAutoReturned
    /\ imageData = Image(44, 30, "vsplit")
    /\ Len(segments) = 2

\* the points (i*step, j*step) with i, j >= 1 inside the image
GridPoints(width, height, step) ==
    { [x |-> i * step, y |-> j * step] :
        i \in { i \in 1..width : i * step < width },
        j \in { j \in 1..height : j * step < height } }

\* p comes before q in row-major order: y first, then x
RowMajorBefore(p, q) == p.y < q.y \/ (p.y = q.y /\ p.x < q.x)

\* C13: getSamplePoints(width, height, count), with
\* step = floor(sqrt(width*height/count)), returns exactly the points
\* (i*step, j*step) with i, j >= 1 that lie inside the image, in row-major
\* order: the sequence is strictly increasing in (y, x), so no point repeats.
C13_SampleGrid ==
    (pc = "returned") =>
        LET step == SampleStep(call.width, call.height, call.count)
        IN  /\ { samplePoints[k] : k \in 1..Len(samplePoints) }
                   = GridPoints(call.width, call.height, step)
            /\ \A k \in 1..(Len(samplePoints) - 1) :
                   RowMajorBefore(samplePoints[k], samplePoints[k + 1])
            /\ \A k \in 1..Len(samplePoints) :
                   /\ samplePoints[k].x \in 1..(call.width - 1)
                   /\ samplePoints[k].y \in 1..(call.height - 1)

\* sampleSeeds(100, 100, 25) of the spec: step 20, 16 points from (20, 20)
\* to (80, 80)
C13_Witness ==
    /\ pc = "returned"
    /\ call.width = 100 /\ call.height = 100 /\ call.count = 25
    /\ Len(samplePoints) = 16
    /\ samplePoints[1] = [x |-> 20, y |-> 20]
    /\ samplePoints[5] = [x |-> 20, y |-> 40]
    /\ samplePoints[16] = [x |-> 80, y |-> 80]

\* performLocalSegmentation runs, or has returned, in auto mode
AutoRunning == clickPoint = NoClick /\ pc \in {"points", "return", "done"}

\* the position in samplePoints of the first sample point inside the region
FirstSeed(img, seg) ==
    CHOOSE k \in 1..Len(samplePoints) :
        /\ seg.maskData[samplePoints[k].y * img.width + samplePoints[k].x] # 0
        /\ \A l \in 1..(k - 1) :
               seg.maskData[samplePoints[l].y * img.width + samplePoints[l].x] = 0

\* C14: automatic local segmentation never holds more than 15 regions; no
\* sample point is examined once 15 regions are accepted; the regions are in
\* the order in which their seeds were scanned, each appended at the end of
\* the list by the round of the sample point it grew from.
C14_AtMostFifteenInSeedOrder ==
    /\ [](AutoRunning =>
            /\ Len(segments) <= 15
            /\ (pc = "points" => Len(segments) < 15)
            /\ \A k \in 1..Len(segments) :
                   /\ \E l \in 1..Len(samplePoints) :
                          segments[k].maskData[samplePoints[l].y * imageData.width
                                               + samplePoints[l].x] # 0
                   /\ FirstSeed(imageData, segments[k]) <= pointIdx
                   /\ k > 1 => FirstSeed(imageData, segments[k - 1])
                                  < FirstSeed(imageData, segments[k]))
    /\ [][(pc = "points" /\ segments' # segments) =>
            /\ segments' = Append(segments, segment')
            /\ FirstSeed(imageData, segment') = pointIdx]_vars

\* 15 regions accepted on the chequerboard, the 16th sample point not examined
C14_Witness ==
    /\ pc = "return"
    /\ clickPoint = NoClick
    /\ Len(segments) = 15
    /\ pointIdx = 15
    /\ Len(samplePoints) = 16
    /\ visited[samplePoints[16].y * imageData.width + samplePoints[16].x] = 0

\* C15: when config.useSamApi is false the status line reads 'Using Local
\* Segmentation', no request is sent to the SAM API, and every posted result
\* comes from the local fallback.
C15_ApiOffServedLocally ==
    ~useSamApi =>
        /\ \A healthOk \in BOOLEAN :
               StatusText(checkSAMStatus(useSamApi, healthOk))
                   = "Using Local Segmentation"
        /\ payload = Null
        /\ pc = "done" => error # Null

\* C16: the result posted for an automatic request never has more than
\* config.maxSegments (15) regions, whether the SAM API or the local fallback
\* produced it.
C16_AutoResultWithinMaxSegments ==
    \A k \in 1..Len(posted) :
        requests[k].clickPoint = NoClick
            => Len(posted[k].segments) <= ConfigMaxSegments

\* C17: extraction is deterministic and keeps nothing between calls: two
\* calls of performLocalSegmentation for the same image and the same click
\* point (the same seed and tolerance) post regions with identical masks and
\* bounding boxes, whatever call ran between or before them.
C17_SameCallSameRegions ==
    \A i \in 1..Len(posted) : \A j \in 1..Len(posted) :
        requests[i] = requests[j]
            => Shapes(posted[i].segments) = Shapes(posted[j].segments)

\* the same click request served twice, each time with one region
C17_Witness ==
    /\ Len(posted) = 2
    /\ requests[1] = requests[2]
    /\ requests[1].clickPoint # NoClick
    /\ Len(posted[2].segments) = 1
    /\ visited # Null

\* the step replaces the App's list by the regions of the result it takes up
ReplacedByResult ==
    /\ channel.toApp # << >>
    /\ channel'.toApp = Tail(channel.toApp)
    /\ app'.segments = Head(channel.toApp).segments

\* C18 as stated: every change to the App's segments list is a full
\* replacement by the complete result of a finished segment call; nothing
\* else removes or alters entries of the list.
C18_OnlyFullReplacement ==
    [][app'.segments # app.segments => ReplacedByResult]_vars

\* C18, amended: every change to the App's segments list is a full
\* replacement by the complete result of a finished segment call, a reset to
\* the empty list, or the removal of the entries that carry one id, the
\* other entries staying as and where they are.
C18_ReplaceResetOrDelete ==
    [][app'.segments # app.segments =>
          \/ ReplacedByResult
          \/ app'.segments = << >>
          \/ \E k \in 1..Len(app.segments) :
                 app'.segments = Without(app.segments, app.segments[k].id)]_vars

\* a result of two regions has replaced the list and the worker is idle
C18_Witness ==
    /\ app # Null
    /\ Len(app.segments) = 2
    /\ ~app.isSegmenting
    /\ channel = NoMessages

\* the pixels a flood fill of the call may accept: not in the visited map at
\* the start of the run, and within the tolerance of the seed's colour
Admissible(c) ==
    LET seed == Rgba(c.image, c.startX, c.startY)
    IN  { i \in 0..(c.image.width * c.image.height - 1) :
            LET p == Rgba(c.image, i % c.image.width, i \div c.image.width)
            IN  /\ c.visited[i] = 0
                /\ Abs(p[1] - seed[1]) + Abs(p[2] - seed[2]) + Abs(p[3] - seed[3])
                       <= c.tolerance }

\* the 4-neighbours of pixel i in an image of the given size
Neighbours(width, height, i) ==
    { j \in { i - 1, i + 1, i - width, i + width } :
        /\ j >= 0 /\ j < width * height
        /\ (j \div width = i \div width) \/ (j % width = i % width) }

\* the pixels of allowed that a 4-connected path inside allowed joins to found
RECURSIVE Reach(_, _, _, _)
Reach(width, height, allowed, found) ==
    LET more == { j \in allowed \ found :
                    \E i \in found : j \in Neighbours(width, height, i) }
    IN  IF more = {} THEN found
        ELSE Reach(width, height, allowed, found \cup more)

Reachable(c) ==
    Reach(c.image.width, c.image.height, Admissible(c),
          { c.startY * c.image.width + c.startX } \cap Admissible(c))

\* the loop of the flood fill is over
FloodOver == pc \in {"flooding", "returned"} /\ ~FloodRunning(ff)

\* C19: when the cap is not triggered, the mask of a flood fill is exactly
\* the set of pixels joined to the seed by a 4-connected path of pixels that
\* were unvisited at the start of the run and whose colour is within the
\* tolerance of the seed's colour; the seed is in the mask.
C19_MaskIsReachableSet ==
    (FloodOver /\ ~ff.broke) =>
        /\ SetPixels(ff.mask) = Reachable(call)
        /\ ff.mask[call.startY * call.image.width + call.startX] # 0
        /\ \A i \in DOMAIN ff.mask : ff.mask[i] \in {0, 255}

\* a run on a map that an earlier run has left, ended without the cap,
\* with a pixel of the seed's colour that the run could not take
C19_Witness ==
    /\ pc = "returned"
    /\ ~ff.broke
    /\ ff.pixelCount > 1
    /\ \E i \in DOMAIN call.visited :
           /\ call.visited[i] # 0
           /\ Rgba(call.image, i % call.image.width, i \div call.image.width)
                  = Rgba(call.image, call.startX, call.startY)

\* C20: a flood fill stops exactly when its queue is empty or its accepted
\* count first exceeds half of the pixels: in every state the count is the
\* number of pixels in the mask and is at most floor(width*height/2) + 1,
\* the loop runs only while the count is at most half, the break is taken
\* exactly when the count exceeds half, and a region of exactly half of the
\* image is not truncated.
C20_StopsAtQueueEndOrCap ==
    (pc \in {"flooding", "returned"}) =>
        LET n == call.image.width * call.image.height
        IN  /\ ff.pixelCount = Cardinality(SetPixels(ff.mask))
            /\ ff.pixelCount <= (n \div 2) + 1
            /\ ff.broke <=> 2 * ff.pixelCount > n
            /\ FloodRunning(ff) => 2 * ff.pixelCount <= n
            /\ pc = "returned" => (ff.queue = << >> \/ 2 * ff.pixelCount > n)
            /\ (FloodOver /\ 2 * ff.pixelCount = n)
                   => (ff.queue = << >> /\ SetPixels(ff.mask) = Reachable(call))

\* a flood fill of one half of the split image has returned: 128 of 256
\* pixels, the queue run empty, the break not taken
C20_Witness ==
    /\ pc = "returned"
    /\ call.image = Image(16, 16, "vsplit")
    /\ 2 * ff.pixelCount = call.image.width * call.image.height
    /\ ~ff.broke
    /\ segment # Null

\* the pixels the flood fill from the seed accepts on the visited map v: the
\* mask at the end of its loop, whether or not line 233 returns a region
AcceptedBy(img, seed, v, tolerance) ==
    SetPixels(FloodLoop(img, FloodInit(img, seed.x, seed.y, v, tolerance),
                        4 * img.width * img.height + 1).mask)

\* the step runs a flood fill from the seed on the map v and leaves visited'
\* as v plus exactly the pixels the run accepted, the seed among them; a
\* region the run returns has those pixels as its mask; the list is the list
\* before, with that region at its end or without it, and the pixels are in
\* no region of the list before
GrowsByAccepted(img, seed, v, before, tolerance) ==
    \E accepted \in { AcceptedBy(img, seed, v, tolerance) } :
        /\ VisitedPixels(visited') = VisitedPixels(v) \cup accepted
        /\ VisitedPixels(v) \cap accepted = { }
        /\ (seed.y * img.width + seed.x) \in accepted
        /\ segment' # Null => SetPixels(segment'.maskData) = accepted
        /\ segments' # before => segments' = Append(before, segment')
        /\ \A k \in 1..Len(before) :
               /\ segments'[k] = before[k]
               /\ SetPixels(before[k].maskData) \cap accepted = { }

\* C21: within one extraction pass the visited map only grows: after each
\* flood fill it is its previous value plus exactly the pixels that run
\* accepted, also when the run's region is discarded; the regions of the list
\* lie inside the visited map and keep their masks; and a sample point whose
\* pixel is already visited starts no flood fill.
C21_VisitedGrowsByAcceptedPixels ==
    /\ []((clickPoint = NoClick /\ pc \in {"points", "return"}) =>
            \A k \in 1..Len(segments) :
                SetPixels(segments[k].maskData) \subseteq VisitedPixels(visited))
    /\ [][(pc = "catch" /\ clickPoint # NoClick) =>
            GrowsByAccepted(imageData, clickPoint,
                            Zeros(imageData.width * imageData.height),
                            << >>, ClickTolerance)]_vars
    /\ [][(pc = "points" /\ pointIdx <= Len(samplePoints)) =>
            IF visited[samplePoints[pointIdx].y * imageData.width
                       + samplePoints[pointIdx].x] # 0
            THEN /\ visited' = visited
                 /\ segments' = segments
                 /\ segment' = segment
            ELSE GrowsByAccepted(imageData, samplePoints[pointIdx], visited,
                                 segments, AutoTolerance)]_vars

\* in auto mode the last flood fill accepted fewer than 100 pixels and
\* returned no region: the pixels are visited and in no region of the list
C21_Witness ==
    /\ pc = "points"
    /\ clickPoint = NoClick
    /\ pointIdx > 1
    /\ segment = Null
    /\ \E i \in DOMAIN visited :
           /\ visited[i] # 0
           /\ \A k \in 1..Len(segments) : segments[k].maskData[i] = 0

\* C22: in the App, whenever isSegmenting is true it becomes false again,
\* under every interleaving of the user's actions with the worker's reply,
\* Change Image and a new selection while a request is in flight included.
C22_SegmentingEnds == app.isSegmenting ~> ~app.isSegmenting

\* C23: the segments list shown with an image holds only segments computed
\* from the imageData that is loaded: a result of a request issued for the
\* image before is never applied after a new image has been selected.
C23_SegmentsOfLoadedImage ==
    (app.originalImage # Null) =>
        \A k \in 1..Len(app.segments) : app.segments[k].of = app.imageData

\* the requests and results between the page and its worker
InFlight == Len(channel.toWorker) + Len(channel.toApp)

\* a step of the page that posts a 'segment' message
PostsSegment == Len(channel'.toWorker) = Len(channel.toWorker) + 1

\* C24: at most one segmentation request is in flight at any time: no
\* 'segment' message is posted while isSegmenting is true, so a request and
\* its result are never pending next to another one.
C24_OneRequestInFlight ==
    /\ [](InFlight <= 1)
    /\ [][PostsSegment => ~app.isSegmenting /\ InFlight = 0]_vars

\* the result of a Re-segment is pending while regions are shown
C24_Witness ==
    /\ app.isSegmenting
    /\ Len(channel.toApp) = 1
    /\ Len(app.segments) > 0

====
